---- MODULE Spec2Model ----
(***************************************************************************)
(* Cottage Tandoori printer helper (src/index.js): an Express service that *)
(* formats kitchen and customer receipts and sends them to an ESC/POS      *)
(* printer, or to the console when no printer is attached.                 *)
(*                                                                         *)
(* JavaScript values are records tagged by their type, so that truthiness, *)
(* template-literal conversion and property lookup are computed as the     *)
(* language computes them.  A document is the sequence of its lines (the   *)
(* source builds one string with "\n" between the lines).  TLC strings are *)
(* ASCII: the pound sign is written GBP and the emoji that open three      *)
(* kitchen lines are left out of the line prefixes.                        *)
(***************************************************************************)
EXTENDS Integers, Sequences, FiniteSets, TLC

(***************************************************************************)
(* Bounds                                                                  *)
(***************************************************************************)
MaxRequests == 2
MaxItems == 2

(***************************************************************************)
(* JavaScript values                                                       *)
(***************************************************************************)
Undef == [t |-> "undefined"]
Num(n) == [t |-> "number", n |-> n]
\* a number k/8: multiples of 1/8 are exact IEEE doubles, so toFixed's
\* rounding is computed exactly
Amt(k) == [t |-> "number", e |-> k]
Str(s) == [t |-> "string", s |-> s]
Arr(q) == [t |-> "array", a |-> q]

IsInt(v) == v.t = "number" /\ "n" \in DOMAIN v
IsAmt(v) == v.t = "number" /\ "e" \in DOMAIN v

\* ToBoolean: undefined, 0 and "" are falsy, objects and arrays are truthy
Truthy(v) ==
    CASE v.t = "undefined" -> FALSE
      [] IsInt(v) -> v.n # 0
      [] IsAmt(v) -> v.e # 0
      [] v.t = "string" -> v.s # ""
      [] OTHER -> TRUE

RECURSIVE Join(_, _)
Join(q, sep) ==
    IF Len(q) = 0 THEN ""
    ELSE IF Len(q) = 1 THEN Head(q)
    ELSE Head(q) \o sep \o Join(Tail(q), sep)

TwoDigits(n) == IF n < 10 THEN "0" \o ToString(n) ELSE ToString(n)

\* Number.prototype.toFixed(2) of k/8: the integer n nearest to 100*k/8,
\* the larger one on a tie, printed with two decimals
Pence(k) == (25 * k + 1) \div 2
ToFixed2(k) == ToString(Pence(k) \div 100) \o "." \o TwoDigits(Pence(k) % 100)

\* the decimal digits of j/8, as Number.prototype.toString prints them
Eighths == <<"", ".125", ".25", ".375", ".5", ".625", ".75", ".875">>

\* conversion of a value inside a template literal
Text(v) ==
    CASE v.t = "undefined" -> "undefined"
      [] IsInt(v) -> ToString(v.n)
      [] IsAmt(v) -> ToString(v.e \div 8) \o Eighths[(v.e % 8) + 1]
      [] v.t = "string" -> v.s
      [] v.t = "array" -> Join(v.a, ",")
      [] OTHER -> "[object Object]"

\* String.prototype.padEnd
RECURSIVE PadEnd(_, _)
PadEnd(s, n) == IF Len(s) >= n THEN s ELSE PadEnd(s \o " ", n)

\* a || b
OrElse(a, b) == IF Truthy(a) THEN a ELSE b

Pound == "GBP"
Rule == "============================"
Dash == "----------------------------"
\* new Date().toLocaleString()
Now == Str("6/11/2026, 12:00:00")

Thrown == [threw |-> TRUE]
Built(doc) == [threw |-> FALSE, doc |-> doc]

(***************************************************************************)
(* Kitchen receipt: the body of POST /api/print-kitchen between validation *)
(* and dispatch.                                                           *)
(***************************************************************************)
SectionNames == <<"Starters", "Mains", "Rice & Bread", "Drinks", "Others">>

\* the properties every object literal inherits from Object.prototype
ObjectPrototypeKeys ==
    {"constructor", "toString", "toLocaleString", "valueOf", "hasOwnProperty",
     "isPrototypeOf", "propertyIsEnumerable", "__proto__"}

IsSectionName(k) == \E i \in DOMAIN SectionNames : SectionNames[i] = k

\* String.prototype.toUpperCase on the section names
ToUpperCase(name) ==
    CASE name = "Starters" -> "STARTERS"
      [] name = "Mains" -> "MAINS"
      [] name = "Rice & Bread" -> "RICE & BREAD"
      [] name = "Drinks" -> "DRINKS"
      [] name = "Others" -> "OTHERS"

EmptySections == [i \in DOMAIN SectionNames |-> <<>>]

SectionIndex(name) == CHOOSE i \in DOMAIN SectionNames : SectionNames[i] = name

\* sections[section] || sections['Others']: the index of the array the item
\* goes to, or 0 when the lookup finds an inherited property, which is
\* truthy and has no push method
TargetSection(item) ==
    LET section == OrElse(item.category, Str("Others"))
        key == Text(section)
    IN  IF IsSectionName(key) THEN SectionIndex(key)
        ELSE IF key \in ObjectPrototypeKeys THEN 0
        ELSE SectionIndex("Others")

\* the lines one item pushes to its section
ItemLines(item) ==
    <<Text(item.quantity) \o "x " \o Text(item.name)>>
    \o (IF Truthy(item.spiceLevel)
        THEN <<"   spice: " \o Text(item.spiceLevel)>> ELSE <<>>)
    \o (IF Truthy(item.specialInstructions)
        THEN <<"   note: " \o Text(item.specialInstructions)>> ELSE <<>>)
    \o (IF item.allergens.t = "array" /\ Len(item.allergens.a) > 0
        THEN <<"   ALLERGENS: " \o Join(item.allergens.a, ", ")>> ELSE <<>>)

\* order.items.forEach(...): the sections after the items, or Thrown
RECURSIVE GroupItems(_, _)
GroupItems(items, sections) ==
    IF Len(items) = 0 THEN [threw |-> FALSE, sections |-> sections]
    ELSE LET i == TargetSection(Head(items))
         IN  IF i = 0 THEN Thrown
             ELSE GroupItems(Tail(items),
                      [sections EXCEPT ![i] = @ \o ItemLines(Head(items))])

\* Object.entries(sections).forEach(...): sections in insertion order
RECURSIVE RenderSections(_, _)
RenderSections(sections, i) ==
    IF i > Len(SectionNames) THEN <<>>
    ELSE (IF Len(sections[i]) > 0
          THEN <<"[" \o ToUpperCase(SectionNames[i]) \o "]">> \o sections[i] \o <<"">>
          ELSE <<>>)
         \o RenderSections(sections, i + 1)

KitchenContent(order, orderNumber, timestamp) ==
    IF order.t # "object" THEN Thrown
    ELSE IF order.items.t # "array" THEN Thrown
    ELSE LET g == GroupItems(order.items.a, EmptySections)
         IN  IF g.threw THEN Thrown
             ELSE Built(
                  <<"", "KITCHEN ORDER #" \o Text(orderNumber),
                    Text(OrElse(timestamp, Now)), Rule, "">>
                  \o RenderSections(g.sections, 1)
                  \o (IF Truthy(order.specialInstructions)
                      THEN <<"", "SPECIAL INSTRUCTIONS:",
                             Text(order.specialInstructions), "">>
                      ELSE <<>>)
                  \o <<"", "Table: " \o Text(OrElse(order.tableNumber, Str("N/A"))),
                       "Order Type: " \o Text(OrElse(order.orderType, Str("DINE-IN"))),
                       Rule, "    ">>)

(***************************************************************************)
(* Customer receipt: the body of POST /api/print-customer between          *)
(* validation and dispatch.  x.toFixed(2) throws a TypeError when x is not *)
(* a number.                                                               *)
(***************************************************************************)
Money(v) == Pound \o ToFixed2(v.e)

\* item.modifiers.forEach(...)
RECURSIVE ModifierLines(_)
ModifierLines(mods) ==
    IF Len(mods) = 0 THEN <<>>
    ELSE <<"   + " \o PadEnd(Text(Head(mods).name), 16) \o Money(Head(mods).price)>>
         \o ModifierLines(Tail(mods))

\* one pass of order.items.forEach(...): itemTotal is price * quantity
CustomerItemLines(item) ==
    <<Text(item.quantity) \o "x " \o PadEnd(Text(item.name), 20)
        \o Money(Amt(item.price.e * item.quantity.n))>>
    \o (IF item.modifiers.t = "array" /\ Len(item.modifiers.a) > 0
        THEN ModifierLines(item.modifiers.a) ELSE <<>>)

RECURSIVE AllItemLines(_)
AllItemLines(items) ==
    IF Len(items) = 0 THEN <<>>
    ELSE CustomerItemLines(Head(items)) \o AllItemLines(Tail(items))

\* x > 0 with x possibly undefined (undefined > 0 is false)
Positive(v) == IsAmt(v) /\ v.e > 0

RECURSIVE SumOfModifiers(_)
SumOfModifiers(mods) ==
    IF Len(mods) = 0 THEN 0 ELSE Head(mods).price.e + SumOfModifiers(Tail(mods))

RECURSIVE SumOfItems(_)
SumOfItems(items) ==
    IF Len(items) = 0 THEN 0
    ELSE Head(items).price.e * Head(items).quantity.n
         + (IF Head(items).modifiers.t = "array"
            THEN SumOfModifiers(Head(items).modifiers.a) ELSE 0)
         + SumOfItems(Tail(items))

\* faulty variant: the total is recomputed from the items
TotalOfItems(order) == Amt(SumOfItems(order.items.a))

\* the amount printed on the TOTAL line
TotalAmount(order) == order.total

CustomerContent(order, payment, orderNumber, timestamp) ==
    IF \/ order.t # "object"
       \/ payment.t # "object"
       \/ order.items.t # "array"
       \/ ~IsAmt(order.subtotal)
       \/ ~IsAmt(order.vatAmount)
       \/ ~IsAmt(TotalAmount(order))
    THEN Thrown
    ELSE Built(
         <<"", "CUSTOMER RECEIPT", "Order #" \o Text(orderNumber),
           Text(OrElse(timestamp, Now)), Rule, "">>
         \o AllItemLines(order.items.a)
         \o <<"", Dash, "Subtotal................" \o Money(order.subtotal)>>
         \o (IF Positive(order.discountAmount)
             THEN <<"Discount................-" \o Money(order.discountAmount)>>
             ELSE <<>>)
         \o (IF Positive(order.deliveryFee)
             THEN <<"Delivery Fee............" \o Money(order.deliveryFee)>>
             ELSE <<>>)
         \o <<"VAT (20%)..............." \o Money(order.vatAmount), Dash,
              "TOTAL..................." \o Money(TotalAmount(order)), "",
              "PAYMENT DETAILS:", "Method: " \o Text(payment.method),
              "Status: " \o Text(payment.status)>>
         \o (IF Truthy(payment.cardLast4)
             THEN <<"Card: ****" \o Text(payment.cardLast4)>> ELSE <<>>)
         \o <<"", "Order Type: " \o Text(order.orderType)>>
         \o (IF Truthy(order.deliveryAddress)
             THEN <<"Delivery Address:", Text(order.deliveryAddress)>> ELSE <<>>)
         \o <<"", "Thank you for your order!", "Visit us again soon.",
              Rule, "    ">>)

\* the test receipt of POST /api/test-print
TestContent ==
    <<"", "TEST RECEIPT", "-----------", "Date: " \o Text(Now),
      "Test Item 1.................." \o Pound \o "8.50",
      "Test Item 2.................." \o Pound \o "12.00",
      "                        -----------",
      "Subtotal...................." \o Pound \o "20.50",
      "VAT (20%)..................." \o Pound \o "4.10",
      "                        -----------",
      "TOTAL......................" \o Pound \o "24.60",
      "", "Thank you for visiting!", "    ">>

(***************************************************************************)
(* The service.  Request slots are numbered in arrival order.  The printer *)
(* driver is outside the repository: each of its calls may throw, and it   *)
(* may run a callback before it returns or later from the event loop.      *)
(***************************************************************************)
VARIABLES
    proc,       \* "starting", "running", or "crashed" on an uncaught exception
    printer,    \* the module variable printer: "null" or "handle"
    req,        \* req[r]: the request handled in slot r
    pc,         \* pc[r]: "idle", "open", "close", "lost" or "done"
    res,        \* res[r]: the responses sent for r
    calls,      \* calls[r]: invocations of r's printOrSimulate callback
    console,    \* documents written with console.log by printOrSimulate
    device,     \* driver calls made on the printer handle, in order
    kit,        \* formatter runs: last kitchen receipt
    cust,       \* formatter runs: last customer receipt
    custPrev    \* formatter runs: the customer receipt before cust

vars == <<proc, printer, req, pc, res, calls, console, device, kit, cust, custPrev>>
serverVars == <<proc, printer, req, pc, res, calls, console, device>>
formatVars == <<kit, cust, custPrev>>

Requests == 1..MaxRequests
NoReq == [kind |-> "none"]
None == [kind |-> "none"]

\* the calls chained on the printer inside the open callback, before close
Command(cmd, arg) == [cmd |-> cmd, arg |-> arg]
Chain(content) ==
    << Command("font", <<"a">>), Command("align", <<"ct">>),
       Command("style", <<"bu">>), Command("size", <<"2", "2">>),
       Command("text", <<"COTTAGE TANDOORI">>), Command("feed", <<"1">>),
       Command("style", <<"normal">>), Command("size", <<"1", "1">>),
       Command("text", <<"123 High Street, London">>),
       Command("text", <<"Tel: 020 1234 5678">>), Command("feed", <<"2">>),
       Command("align", <<"lt">>), Command("text", content),
       Command("feed", <<"3">>), Command("cut", <<>>) >>

\* what the driver does on one print attempt
OpenModes == {"throws", "sync", "syncThrows", "async"}
CloseModes == {"throws", "sync", "async"}
FailPoints ==
    {0} \cup {i \in DOMAIN Chain(<<>>) : Chain(<<>>)[i].cmd \in {"text", "cut"}}
\* open throws or defers its callback; or it runs the callback at once, in
\* which a command throws or close is reached
Behaviours ==
    {[open |-> o, failAt |-> 0, close |-> "sync"] : o \in {"throws", "async"}}
    \cup {[open |-> o, failAt |-> f, close |-> "sync"] :
             o \in {"sync", "syncThrows"}, f \in FailPoints \ {0}}
    \cup {[open |-> o, failAt |-> 0, close |-> c] :
             o \in {"sync", "syncThrows"}, c \in CloseModes}

\* the driver is not called without a printer handle
BehavioursOf(p) ==
    IF p = "null" THEN {[open |-> "throws", failAt |-> 0, close |-> "sync"]}
    ELSE Behaviours

\* the body of the open callback: the commands that reached the driver and
\* how the chain ended ("threw", close "called" the callback, or the
\* callback is "pending")
RunChain(content, failAt, close) ==
    IF failAt # 0
    THEN [cmds |-> SubSeq(Chain(content), 1, failAt - 1), end |-> "threw"]
    ELSE IF close = "throws"
    THEN [cmds |-> Chain(content), end |-> "threw"]
    ELSE [cmds |-> Chain(content) \o <<Command("close", <<>>)>>,
          end |-> IF close = "sync" THEN "called" ELSE "pending"]

SimulatedPrint(content) ==
    <<"SIMULATED PRINT:", "================================",
      "      COTTAGE TANDOORI", "   123 High Street, London",
      "     Tel: 020 1234 5678", "================================">>
    \o content \o <<"================================">>

PrinterError(content) == <<"SIMULATED PRINT (Printer Error):">> \o content

\* whether the catch block of printOrSimulate runs
Caught(d, run) == run.end = "threw" \/ d.open = "syncThrows"

\* the else branch of printOrSimulate: no printer
SimulateBranch(content) ==
    [console |-> SimulatedPrint(content), dev |-> <<>>, calls |-> 1,
     wait |-> "none"]

\* the if (printer) branch of printOrSimulate up to its return
PrinterBranch(content, d) ==
    IF d.open = "throws"
    THEN [console |-> PrinterError(content), dev |-> <<>>, calls |-> 1,
          wait |-> "none"]
    ELSE IF d.open = "async"
    THEN [console |-> <<>>, dev |-> <<Command("open", <<>>)>>, calls |-> 0,
          wait |-> "open"]
    ELSE LET run == RunChain(content, d.failAt, d.close)
         IN  [console |-> IF Caught(d, run) THEN PrinterError(content) ELSE <<>>,
              dev |-> <<Command("open", <<>>)>> \o run.cmds,
              calls |-> (IF run.end = "called" THEN 1 ELSE 0)
                        + (IF Caught(d, run) THEN 1 ELSE 0),
              wait |-> IF run.end = "pending" THEN "close" ELSE "none"]

\* faulty variant: the branch without a printer logs nothing and never calls back
PrintOrSimulateSilent(p, content, d) ==
    IF p = "null"
    THEN [console |-> <<>>, dev |-> <<>>, calls |-> 0, wait |-> "none"]
    ELSE PrinterBranch(content, d)

\* printOrSimulate up to its return: the console output, the driver calls,
\* the number of times callback was invoked, and the callback still awaited
PrintOrSimulate(p, content, d) ==
    IF p = "null" THEN SimulateBranch(content) ELSE PrinterBranch(content, d)

(***************************************************************************)
(* Responses.  The timestamp field of the JSON is left out.                *)
(***************************************************************************)
HealthJson(p) ==
    [code |-> 200, status |-> "running", printer_connected |-> p # "null"]

StatusJson(p) ==
    [code |-> 200, connected |-> p # "null",
     status |-> IF p # "null" THEN "ready" ELSE "disconnected"]

BadRequest(message) == [code |-> 400, success |-> FALSE, message |-> message]

\* the JSON the completion callback of each print endpoint sends
Printed(q) ==
    CASE q.kind = "test" ->
           [code |-> 200, success |-> TRUE,
            message |-> "Test receipt printed successfully"]
      [] q.kind = "kitchen" ->
           [code |-> 200, success |-> TRUE,
            message |-> "Kitchen receipt printed successfully",
            orderNumber |-> q.orderNumber]
      [] q.kind = "customer" ->
           [code |-> 200, success |-> TRUE,
            message |-> "Customer receipt printed successfully",
            orderNumber |-> q.orderNumber]

\* a handler that throws: Express's router catches the exception and its
\* default error handler answers 500
ServerError == [code |-> 500, message |-> "TypeError"]

\* if (!order || !orderNumber)
KitchenInvalid(q) == ~Truthy(q.order) \/ ~Truthy(q.orderNumber)

\* faulty variant: the payment check is forgotten
CustomerInvalidWithoutPayment(q) == ~Truthy(q.order) \/ ~Truthy(q.orderNumber)

\* if (!order || !payment || !orderNumber)
CustomerInvalid(q) ==
    ~Truthy(q.order) \/ ~Truthy(q.payment) \/ ~Truthy(q.orderNumber)

Invalid(q) ==
    CASE q.kind = "kitchen" -> KitchenInvalid(q)
      [] q.kind = "customer" -> CustomerInvalid(q)
      [] OTHER -> FALSE

\* the document a print handler builds for printOrSimulate
Content(q) ==
    CASE q.kind = "test" -> Built(TestContent)
      [] q.kind = "kitchen" -> KitchenContent(q.order, q.orderNumber, q.timestamp)
      [] q.kind = "customer" ->
           CustomerContent(q.order, q.payment, q.orderNumber, q.timestamp)

Tagged(r, cmds) == [i \in DOMAIN cmds |-> [r |-> r, cmd |-> cmds[i].cmd, arg |-> cmds[i].arg]]

\* faulty variant: a request is taken only when no print job is in progress
CanArriveExclusive(r) ==
    /\ proc = "running"
    /\ pc[r] = "idle"
    /\ \A q \in Requests : q < r => pc[q] \in {"done", "lost"}

\* express hands a request to its route handler; requests may arrive while
\* earlier ones wait for the driver
CanArrive(r) ==
    /\ proc = "running"
    /\ pc[r] = "idle"
    /\ \A q \in Requests : q < r => pc[q] # "idle"

\* a handler that answers without calling printOrSimulate
Answer(r, q, json) ==
    /\ req' = [req EXCEPT ![r] = q]
    /\ res' = [res EXCEPT ![r] = <<json>>]
    /\ pc' = [pc EXCEPT ![r] = "done"]
    /\ UNCHANGED <<proc, printer, calls, console, device>>

\* what a call of printOrSimulate from the handler of r leaves behind
Effects(r, q, eff) ==
    /\ req' = [req EXCEPT ![r] = q]
    /\ console' = IF eff.console = <<>> THEN console
                  ELSE Append(console, [r |-> r, lines |-> eff.console])
    /\ device' = device \o Tagged(r, eff.dev)
    /\ calls' = [calls EXCEPT ![r] = eff.calls]
    /\ res' = [res EXCEPT ![r] = IF eff.calls > 0 THEN <<Printed(q)>> ELSE <<>>]
    /\ pc' = [pc EXCEPT ![r] = IF eff.wait = "none" THEN "done" ELSE eff.wait]

\* faulty variant: the catch block drops the printer handle
DispatchDisconnecting(r, q, content, d) ==
    LET eff == PrintOrSimulate(printer, content, d)
    IN  /\ Effects(r, q, eff)
        /\ printer' = IF printer # "null" /\ eff.console # <<>> THEN "null"
                      ELSE printer
        /\ proc' = proc

\* printOrSimulate(content, () => res.json(...)) called from the handler of r
Dispatch(r, q, content, d) ==
    /\ Effects(r, q, PrintOrSimulate(printer, content, d))
    /\ UNCHANGED <<proc, printer>>

(***************************************************************************)
(* Request bodies of the service model                                     *)
(***************************************************************************)
KitchenItem(quantity, name, category, spiceLevel, allergens) ==
    [t |-> "object", quantity |-> Num(quantity), name |-> Str(name),
     category |-> category, spiceLevel |-> spiceLevel,
     specialInstructions |-> Undef, allergens |-> allergens]

KitchenOrder(items, orderType) ==
    [t |-> "object", items |-> items, specialInstructions |-> Undef,
     tableNumber |-> Undef, orderType |-> orderType]

CustomerItem(quantity, name, price, modifiers) ==
    [t |-> "object", quantity |-> Num(quantity), name |-> Str(name),
     price |-> Amt(price), modifiers |-> modifiers]

CustomerOrder(items, subtotal, discountAmount, deliveryFee, vatAmount, total) ==
    [t |-> "object", items |-> items, subtotal |-> subtotal,
     discountAmount |-> discountAmount, deliveryFee |-> deliveryFee,
     vatAmount |-> vatAmount, total |-> total, orderType |-> Str("delivery"),
     deliveryAddress |-> Undef]

Naan == KitchenItem(2, "Naan", Str("Rice & Bread"), Undef, Undef)
NaanSold == CustomerItem(2, "Naan", 20, Undef)
CardPayment ==
    [t |-> "object", method |-> Str("card"), status |-> Str("paid"),
     cardLast4 |-> Str("4242")]

OrderNumbers == {Undef, Num(0), Str("42")}
KitchenOrders == {Undef, KitchenOrder(Undef, Undef), KitchenOrder(Arr(<<Naan>>), Undef)}
CustomerOrders ==
    {Undef,
     CustomerOrder(Arr(<<NaanSold>>), Undef, Undef, Undef, Undef, Undef),
     CustomerOrder(Arr(<<NaanSold>>), Amt(40), Undef, Undef, Amt(8), Amt(48))}
Payments == {Undef, CardPayment}

\* customer bodies: complete, or with one of the three fields absent
CustomerBodies ==
    {b \in [order : CustomerOrders, payment : Payments,
            orderNumber : {Undef, Str("42")}] :
       Cardinality({f \in {"order", "payment", "orderNumber"} : b[f] = Undef}) <= 1}

(***************************************************************************)
(* Startup and the route handlers                                          *)
(***************************************************************************)
Init ==
    /\ proc = "starting"
    /\ printer = "null"
    /\ req = [r \in Requests |-> NoReq]
    /\ pc = [r \in Requests |-> "idle"]
    /\ res = [r \in Requests |-> <<>>]
    /\ calls = [r \in Requests |-> 0]
    /\ console = <<>>
    /\ device = <<>>
    /\ kit = None
    /\ cust = None
    /\ custPrev = None

TypeOK ==
    /\ proc \in {"starting", "running", "crashed"}
    /\ printer \in {"null", "handle"}
    /\ pc \in [Requests -> {"idle", "open", "close", "lost", "done"}]
    /\ calls \in [Requests -> 0..2]
    /\ \A r \in Requests : Len(res[r]) <= 1
    /\ \A i \in DOMAIN device : device[i].r \in Requests
    /\ \A i \in DOMAIN console : console[i].r \in Requests

\* initializePrinter: printer is assigned only when new escpos.USB() and
\* new escpos.Printer(device) both return
InitializePrinter(found) == IF found THEN "handle" ELSE printer

\* the app.listen callback
Listen ==
    /\ proc = "starting"
    /\ \E found \in BOOLEAN : printer' = InitializePrinter(found)
    /\ proc' = "running"
    /\ UNCHANGED <<req, pc, res, calls, console, device, formatVars>>

Health(r) ==
    /\ CanArrive(r)
    /\ Answer(r, [kind |-> "health"], HealthJson(printer))
    /\ UNCHANGED formatVars

PrinterStatus(r) ==
    /\ CanArrive(r)
    /\ Answer(r, [kind |-> "status"], StatusJson(printer))
    /\ UNCHANGED formatVars

TestPrint(r) ==
    /\ CanArrive(r)
    /\ \E d \in BehavioursOf(printer) :
          Dispatch(r, [kind |-> "test"], TestContent, d)
    /\ UNCHANGED formatVars

\* a print handler after the request body is destructured
PrintRoute(r, q, message) ==
    IF Invalid(q) THEN Answer(r, q, BadRequest(message))
    ELSE IF Content(q).threw THEN Answer(r, q, ServerError)
    ELSE \E d \in BehavioursOf(printer) : Dispatch(r, q, Content(q).doc, d)

PrintKitchen(r) ==
    /\ CanArrive(r)
    /\ \E order \in KitchenOrders, orderNumber \in OrderNumbers :
          PrintRoute(r, [kind |-> "kitchen", order |-> order,
                         orderNumber |-> orderNumber, timestamp |-> Undef],
                     "Order data and order number are required")
    /\ UNCHANGED formatVars

PrintCustomer(r) ==
    /\ CanArrive(r)
    /\ \E b \in CustomerBodies :
          PrintRoute(r, [kind |-> "customer", order |-> b.order,
                         payment |-> b.payment, orderNumber |-> b.orderNumber,
                         timestamp |-> Undef],
                     "Order data, payment details, and order number are required")
    /\ UNCHANGED formatVars

\* the driver runs the callback given to printer.open from the event loop:
\* an exception in it is uncaught and ends the process
OpenCallback(r) ==
    /\ proc = "running"
    /\ pc[r] = "open"
    /\ \E d \in {b \in Behaviours : b.open = "sync"} :
          LET run == RunChain(Content(req[r]).doc, d.failAt, d.close)
          IN  /\ device' = device \o Tagged(r, run.cmds)
              /\ proc' = IF run.end = "threw" THEN "crashed" ELSE proc
              /\ pc' = [pc EXCEPT ![r] =
                          CASE run.end = "threw" -> "lost"
                            [] run.end = "called" -> "done"
                            [] run.end = "pending" -> "close"]
              /\ calls' = [calls EXCEPT ![r] = IF run.end = "called" THEN @ + 1 ELSE @]
              /\ res' = [res EXCEPT ![r] =
                           IF run.end = "called" THEN <<Printed(req[r])>> ELSE @]
    /\ UNCHANGED <<printer, req, console, formatVars>>

\* the driver runs the callback given to close from the event loop; res.json
\* on an answered request throws ERR_HTTP_HEADERS_SENT, uncaught here
CloseCallback(r) ==
    /\ proc = "running"
    /\ pc[r] = "close"
    /\ calls' = [calls EXCEPT ![r] = @ + 1]
    /\ res' = [res EXCEPT ![r] = IF calls[r] = 0 THEN <<Printed(req[r])>> ELSE @]
    /\ proc' = IF calls[r] = 0 THEN proc ELSE "crashed"
    /\ pc' = [pc EXCEPT ![r] = "done"]
    /\ UNCHANGED <<printer, req, console, device, formatVars>>

Next ==
    \/ Listen
    \/ \E r \in Requests :
          \/ Health(r)
          \/ PrinterStatus(r)
          \/ TestPrint(r)
          \/ PrintKitchen(r)
          \/ PrintCustomer(r)
          \/ OpenCallback(r)
          \/ CloseCallback(r)

Spec == Init /\ [][Next]_vars

(***************************************************************************)
(* The two formatters alone, applied to orders of up to MaxItems items: one *)
(* kitchen receipt, or two customer receipts one after the other.          *)
(***************************************************************************)
SeqsUpTo(S, n) == UNION {[1..k -> S] : k \in 0..n}

Categories ==
    {Undef, Str("Starters"), Str("Mains"), Str("Rice & Bread"), Str("Drinks"),
     Str("Others"), Str("Pizza"), Str("constructor")}

KitchenItems ==
    {KitchenItem(2, "Naan", c, Undef, Undef) : c \in Categories}
    \cup {KitchenItem(1, "Tikka", c, Str("hot"), Arr(<<"nuts", "milk">>)) : c \in Categories}

FormatKitchenOrders ==
    {KitchenOrder(Undef, Undef)}
    \cup {KitchenOrder(Arr(items), orderType) :
            items \in SeqsUpTo(KitchenItems, MaxItems),
            orderType \in {Undef, Str("takeaway")}}

CustomerItems ==
    {NaanSold,
     CustomerItem(1, "Tikka", 79, Arr(<<[name |-> Str("Extra hot"), price |-> Amt(4)]>>))}

FormatCustomerOrders ==
    {CustomerOrder(Arr(items), Amt(119), fee, fee, Amt(24), total) :
        items \in SeqsUpTo(CustomerItems, MaxItems),
        fee \in {Undef, Amt(16)},
        total \in {Undef, Amt(40), Amt(119), Amt(1)}}

FormatKitchen ==
    /\ kit = None /\ cust = None
    /\ \E order \in FormatKitchenOrders :
          kit' = [kind |-> "kitchen", order |-> order,
                  out |-> KitchenContent(order, Str("42"), Undef)]
    /\ cust' = None
    /\ custPrev' = None
    /\ UNCHANGED serverVars

FormatCustomer ==
    /\ kit = None /\ custPrev = None
    /\ \E order \in FormatCustomerOrders :
          cust' = [kind |-> "customer", order |-> order,
                   out |-> CustomerContent(order, CardPayment, Str("42"), Undef)]
    /\ custPrev' = cust
    /\ kit' = None
    /\ UNCHANGED serverVars

FormatNext == FormatKitchen \/ FormatCustomer

FormatSpec == Init /\ [][FormatNext]_vars

(***************************************************************************)
(* Claims                                                                  *)
(***************************************************************************)
\* r is handled in this step
Handled(r) == pc[r] = "idle" /\ pc'[r] # "idle"

\* a required field of the body is absent
LacksField(q) ==
    \/ q.kind = "kitchen" /\ (q.order = Undef \/ q.orderNumber = Undef)
    \/ q.kind = "customer"
       /\ (q.order = Undef \/ q.payment = Undef \/ q.orderNumber = Undef)

\* C1: a kitchen request without order or orderNumber, and a customer
\* request without order, payment or orderNumber, is answered 400 with
\* success false in the step that handles it; that step invokes no
\* printOrSimulate callback, writes nothing to the console or the device,
\* leaves nothing pending and leaves the printer handle unchanged.
C1_MissingFieldRejected ==
    [][\A r \in Requests :
          (Handled(r) /\ LacksField(req'[r])) =>
             /\ Len(res'[r]) = 1
             /\ res'[r][1].code = 400
             /\ res'[r][1].success = FALSE
             /\ pc'[r] = "done"
             /\ calls'[r] = 0
             /\ console' = console
             /\ device' = device
             /\ printer' = printer]_vars

C1_Witness ==
    \E r \in Requests :
       /\ printer = "handle"
       /\ req[r].kind = "customer"
       /\ req[r].payment = Undef
       /\ req[r].order # Undef
       /\ req[r].orderNumber = Str("42")
       /\ res[r] = <<BadRequest("Order data, payment details, and order number are required")>>

IsPrint(q) == q.kind \in {"test", "kitchen", "customer"}

\* r's document was written to the console by the branch without a printer
Simulated(r) ==
    \E i \in DOMAIN console :
       console[i] = [r |-> r, lines |-> SimulatedPrint(Content(req[r]).doc)]

\* what C2 says of the requests handled while printer is null;
\* formattedOnly tells whether only the print requests whose document was
\* built are meant
WithoutPrinter(formattedOnly) ==
    printer = "null" =>
       \A r \in Requests :
          pc[r] # "idle" =>
             /\ req[r].kind = "health" =>
                   /\ Len(res[r]) = 1
                   /\ res[r][1].printer_connected = FALSE
             /\ req[r].kind = "status" =>
                   /\ Len(res[r]) = 1
                   /\ res[r][1].connected = FALSE
                   /\ res[r][1].status = "disconnected"
             /\ ( /\ IsPrint(req[r])
                  /\ ~Invalid(req[r])
                  /\ (formattedOnly => ~Content(req[r]).threw) ) =>
                   /\ pc[r] = "done"
                   /\ res[r] = <<Printed(req[r])>>
                   /\ Simulated(r)

\* C2 as stated: while the printer handle is null, health reports
\* printer_connected false, printer-status reports connected false and
\* 'disconnected', and every print request that passes validation is
\* answered success true with its document on the console.
C2_Original == WithoutPrinter(FALSE)

\* C2 amended: the same, for the print requests that pass validation and
\* whose document is built without an exception.
C2_ConsoleFallback == WithoutPrinter(TRUE)

C2_Witness ==
    /\ printer = "null"
    /\ \E r1, r2 \in Requests :
          /\ req[r1].kind = "health"
          /\ res[r1] = <<HealthJson("null")>>
          /\ req[r2].kind = "customer"
          /\ res[r2] = <<Printed(req[r2])>>
          /\ Simulated(r2)

\* C4: once initializePrinter has run, no step changes the printer handle,
\* and every health and printer-status answer given so far reports the
\* connection the handle has now.
C4_ConnectionFixed ==
    [][/\ proc # "starting" => printer' = printer
       /\ \A r \in Requests :
             /\ (pc'[r] # "idle" /\ req'[r].kind = "health") =>
                   res'[r] = <<HealthJson(printer')>>
             /\ (pc'[r] # "idle" /\ req'[r].kind = "status") =>
                   res'[r] = <<StatusJson(printer')>>]_vars

\* a print attempt in which the device threw, then a status request that
\* still reports the printer connected
C4_Witness ==
    \E r1, r2 \in Requests :
       /\ r1 < r2
       /\ printer = "handle"
       /\ IsPrint(req[r1])
       /\ \E i \in DOMAIN console :
             console[i] = [r |-> r1, lines |-> PrinterError(Content(req[r1]).doc)]
       /\ req[r2].kind = "status"
       /\ res[r2] = <<StatusJson("handle")>>

\* r passed validation and its document was handed to printOrSimulate
Dispatched(r) ==
    /\ pc[r] # "idle"
    /\ IsPrint(req[r])
    /\ ~Invalid(req[r])
    /\ ~Content(req[r]).threw

\* nothing more will run for r
Over(r) == pc[r] \in {"done", "lost"}

\* C3: a print request handed to printOrSimulate ends answered with
\* success true, whatever the device did.
C3_AnsweredWhateverTheDevice ==
    \A r \in Requests :
       (Dispatched(r) /\ Over(r)) => res[r] = <<Printed(req[r])>>

\* C5: a kitchen request is answered 400 only when order or orderNumber is
\* absent, and one that supplies an order with its items and an orderNumber
\* is answered success true with that orderNumber.
C5_KitchenAnswer ==
    \A r \in Requests :
       (req[r].kind = "kitchen" /\ pc[r] = "done") =>
          /\ res[r][1].code = 400 => LacksField(req[r])
          /\ ( /\ req[r].order # Undef
               /\ req[r].order.items.t = "array"
               /\ req[r].orderNumber # Undef ) =>
                /\ res[r][1].code = 200
                /\ res[r][1].success = TRUE
                /\ res[r][1].orderNumber = req[r].orderNumber

\* an exception left the formatting code of r's handler, or the open
\* callback of r
Raised(r) ==
    \/ pc[r] = "lost"
    \/ pc[r] = "done" /\ IsPrint(req[r]) /\ ~Invalid(req[r]) /\ Content(req[r]).threw

\* C6: a request whose formatting or open callback raised an exception is
\* answered 500.
C6_ExceptionAnswered500 ==
    \A r \in Requests : Raised(r) => res[r] = <<ServerError>>

\* C10: the completion callback of a request is invoked at most once.
C10_CallbackOnce == \A r \in Requests : calls[r] <= 1

\* a print job of r is in progress on the handle
InProgress(r) == pc[r] \in {"open", "close"}

\* the test-print handler of r calls printer.open, which returns
OpensDevice(r) == TestPrint(r) /\ pc'[r] = "open"

\* C9: with a printer connected, the next request can call open on the
\* handle whatever jobs are in progress on it.
C9_NoMutualExclusion ==
    \A r \in Requests :
       ( /\ proc = "running"
         /\ printer = "handle"
         /\ pc[r] = "idle"
         /\ \A q \in Requests : q < r => pc[q] # "idle" ) =>
          ENABLED OpensDevice(r)

\* two jobs in progress at once, the second opened between the open and the
\* later commands of the first
C9_Witness ==
    \E r1, r2 \in Requests :
       /\ r1 # r2
       /\ InProgress(r1)
       /\ InProgress(r2)
       /\ \E i, j, k \in DOMAIN device :
             /\ i < j /\ j < k
             /\ device[i].r = r1 /\ device[i].cmd = "open"
             /\ device[j].r = r2 /\ device[j].cmd = "open"
             /\ device[k].r = r1 /\ device[k].cmd = "text"

\* the section C7 assigns to an item
ClaimedSection(item) ==
    IF item.category.t = "string" /\ IsSectionName(item.category.s)
    THEN item.category.s ELSE "Others"

\* the lines of the items C7 assigns to a section, in input order
RECURSIVE ClaimedLines(_, _)
ClaimedLines(items, name) ==
    IF Len(items) = 0 THEN <<>>
    ELSE (IF ClaimedSection(Head(items)) = name THEN ItemLines(Head(items)) ELSE <<>>)
         \o ClaimedLines(Tail(items), name)

RECURSIVE ClaimedBody(_, _)
ClaimedBody(items, i) ==
    IF i > Len(SectionNames) THEN <<>>
    ELSE (IF Len(ClaimedLines(items, SectionNames[i])) > 0
          THEN <<"[" \o ToUpperCase(SectionNames[i]) \o "]">>
               \o ClaimedLines(items, SectionNames[i]) \o <<"">>
          ELSE <<>>)
         \o ClaimedBody(items, i + 1)

\* the lines between the five header lines and the five footer lines
KitchenBody(doc) == SubSeq(doc, 6, Len(doc) - 5)

\* C7: the kitchen receipt of an order with an items list renders each
\* item once, in the section its category names when that is one of the
\* five, in Others otherwise; sections in the fixed order, non-empty ones
\* only, under their bracketed uppercase header, items in input order.
C7_ItemsBySection ==
    (kit.kind = "kitchen" /\ kit.order.items.t = "array") =>
       /\ ~kit.out.threw
       /\ KitchenBody(kit.out.doc) = ClaimedBody(kit.order.items.a, 1)

\* the line after the last rule of dashes
TotalLine(doc) ==
    doc[(CHOOSE i \in DOMAIN doc :
            doc[i] = Dash /\ \A j \in DOMAIN doc : doc[j] = Dash => j <= i) + 1]

FormattedCustomer(c) == c.kind = "customer" /\ ~c.out.threw

\* C8: the TOTAL line of a customer receipt is order.total with two
\* decimals, so two receipts with the same order.total have the same TOTAL
\* line whatever their items and other amounts.
C8_TotalAsSupplied ==
    /\ (FormattedCustomer(cust) /\ IsAmt(cust.order.total)) =>
          TotalLine(cust.out.doc)
             = "TOTAL..................." \o Pound \o ToFixed2(cust.order.total.e)
    /\ ( /\ FormattedCustomer(cust)
         /\ FormattedCustomer(custPrev)
         /\ cust.order.total = custPrev.order.total ) =>
          TotalLine(cust.out.doc) = TotalLine(custPrev.out.doc)

\* two receipts with the same total, different items and fees, and a total
\* that is not the sum of the items
C8_Witness ==
    /\ FormattedCustomer(cust)
    /\ FormattedCustomer(custPrev)
    /\ cust.order.total = custPrev.order.total
    /\ cust.order.items # custPrev.order.items
    /\ cust.order.deliveryFee # custPrev.order.deliveryFee
    /\ SumOfItems(cust.order.items.a) # cust.order.total.e
    /\ SumOfItems(cust.order.items.a) > 0
    /\ TotalLine(cust.out.doc) = "TOTAL..................." \o Pound \o "0.13"

====
